---- MODULE Spec2Model ----
(***************************************************************************)
(* Model of bear::visual::text_layout                                      *)
(* (bear-engine/core/src/visual/code/text_layout.cpp).                     *)
(*                                                                         *)
(* A text_layout keeps references on a text, a box size, a font and an     *)
(* horizontal alignment, and answers three queries keyed by the index of   *)
(* the first character of a line: compute_line_width, compute_line_left    *)
(* and compute_line_height_above_baseline.  Indices are 0-based as in the  *)
(* C++ code; m_text[i] of the code is m_text[i + 1] here.  Sizes and        *)
(* coordinates (size_type, coordinate_type) are integers.                  *)
(***************************************************************************)
EXTENDS Integers, Sequences, FiniteSets

VARIABLES m_size_x, m_text, m_font, m_horizontal_align, pc, first, w, h, left

vars == << m_size_x, m_text, m_font, m_horizontal_align, pc, first, w, h, left >>

----------------------------------------------------------------------------
(* Bounds of the explored inputs. *)

MaxLen == 3
MaxW == 2
MaxAdvance == 2

----------------------------------------------------------------------------
(* Characters, fonts, alignments. *)

SPACE == " "
NEWLINE == "\n"

Chars == {"a", "b", SPACE, NEWLINE}

\* The characters the font is asked about: the scans stop on '\n' before
\* reading its metrics.
GlyphChars == Chars \ {NEWLINE}

Texts == UNION { [1..n -> Chars] : n \in 0..MaxLen }

\* get_metrics(c).get_advance().x for every character.
Advances == [GlyphChars -> 0..MaxAdvance]

\* get_sprite(c).height() + get_metrics(c).get_bearing().y for every
\* character: the top of the glyph relatively to the baseline.  A glyph drawn
\* entirely under the baseline has a negative top.  The scan only takes the
\* maximum of the tops and of zero: a top under the baseline and a top above
\* it are the cases.
TopValues == {0 - 1, 1}

Tops == [GlyphChars -> TopValues]

Fonts == [advance : Advances, top : Tops]

text_align == {"align_left", "align_center", "align_right"}

Starts == 0..(MaxLen + 1)

npos == 0 - 1

Min(S) == CHOOSE x \in S : \A y \in S : x <= y

\* std::max
std_max(a, b) == IF a < b THEN b ELSE a

----------------------------------------------------------------------------
(* std::string::find_first_not_of( c, pos ) *)

\* Variant: the search returns the position it starts from.
find_first_not_of_noskip(str, c, pos) ==
  IF pos < Len(str) THEN pos ELSE npos

find_first_not_of(str, c, pos) ==
  LET S == { i \in pos..(Len(str) - 1) : str[i + 1] # c }
  IN IF S = {} THEN npos ELSE Min(S)

\* "The line begins on the first non space character."
line_begin(str, pos) ==
  LET f == find_first_not_of(str, SPACE, pos)
  IN IF f = npos THEN Len(str) ELSE f

----------------------------------------------------------------------------
(* text_layout::compute_line_width                                          *)
(* The local variables of the method are the fields of a record:            *)
(* first, last, result, candidate_length, width, last_space_sequence.       *)

\* Variant: a character that fills the box exactly does not fit.
does_not_fit_strict(candidate_length, width, size_x) ==
  (candidate_length + width) >= size_x

\* Variant: the test forgets the advance of the character.
does_not_fit_unchecked(candidate_length, width, size_x) ==
  candidate_length > size_x

\* The overflow test of the scan: the character does not fit on the line.
does_not_fit(candidate_length, width, size_x) ==
  (candidate_length + width) > size_x

\* Variant: the width at the space sequence is not recorded.
mark_space_sequence_zero(s, c) ==
  IF c = SPACE
    THEN IF s.last_space_sequence = npos
           THEN [s EXCEPT !.last_space_sequence = s.last, !.result = 0]
           ELSE s
    ELSE [s EXCEPT !.last_space_sequence = npos]

\* Variant: the width is recorded at every space, not only at the first
\* space of a sequence.
mark_space_sequence_every(s, c) ==
  IF c = SPACE
    THEN [s EXCEPT !.last_space_sequence = s.last,
                   !.result = s.candidate_length]
    ELSE [s EXCEPT !.last_space_sequence = npos]

\* The bookkeeping of the space sequences, done at the beginning of each
\* iteration for the character c at index s.last.
mark_space_sequence(s, c) ==
  IF c = SPACE
    THEN IF s.last_space_sequence = npos
           THEN [s EXCEPT !.last_space_sequence = s.last,
                          !.result = s.candidate_length]
           ELSE s
    ELSE [s EXCEPT !.last_space_sequence = npos]

\* The while loop of compute_line_width, from the state s of the locals.
RECURSIVE width_loop(_, _, _, _)
width_loop(str, advance, size_x, s) ==
  IF (s.last # Len(str)) /\ (str[s.last + 1] # NEWLINE)
    THEN LET c == str[s.last + 1]
             t == mark_space_sequence(s, c)
             width == advance[c]
         IN IF does_not_fit(t.candidate_length, width, size_x)
              THEN [t EXCEPT !.width = width]
              ELSE width_loop( str, advance, size_x,
                               [t EXCEPT !.width = width,
                                         !.candidate_length = @ + width,
                                         !.last = @ + 1] )
    ELSE s

\* Variant: no adjustment.
adjust_result_keep(str, s) == s

\* Variant: a line ended by a newline or the end of the text always takes
\* the whole candidate length, its last spaces included.
adjust_result_full(str, s) ==
  IF (s.last = Len(str)) \/ (str[s.last + 1] = NEWLINE)
    THEN [s EXCEPT !.result = s.candidate_length]
    ELSE IF s.last_space_sequence = npos /\ s.result = 0
           THEN [s EXCEPT !.result = s.candidate_length]
           ELSE s

\* The adjustment of the result after the loop.
adjust_result(str, s) ==
  IF s.last_space_sequence = npos
    THEN IF (s.last = Len(str)) \/ (str[s.last + 1] = NEWLINE)
           THEN [s EXCEPT !.result = s.candidate_length]
           ELSE IF s.result = 0
                  THEN [s EXCEPT !.result = s.candidate_length]
                  ELSE s
    ELSE s

\* The locals of compute_line_width( pos ) when the method returns.
line_width_locals(str, advance, size_x, pos) ==
  LET b == line_begin(str, pos)
      s0 == [ first |-> b, last |-> b, result |-> 0, candidate_length |-> 0,
              width |-> 0, last_space_sequence |-> npos ]
  IN adjust_result( str, width_loop(str, advance, size_x, s0) )

compute_line_width(str, advance, size_x, pos) ==
  line_width_locals(str, advance, size_x, pos).result

----------------------------------------------------------------------------
(* text_layout::compute_line_left *)

\* result /= 2 on a coordinate_type, rounding toward zero.
halve(x) == IF x >= 0 THEN x \div 2 ELSE 0 - ((0 - x) \div 2)

\* Variant: the centered line is not halved.
compute_line_left_nohalf(align, size_x, line_width) ==
  IF align = "align_left" THEN 0 ELSE size_x - line_width

compute_line_left(align, size_x, line_width) ==
  IF align = "align_left"
    THEN 0
    ELSE LET result == size_x - line_width
         IN IF align = "align_center" THEN halve(result) ELSE result

----------------------------------------------------------------------------
(* text_layout::compute_line_height_above_baseline                          *)
(* Locals: first, result, line_width, stop.                                 *)

\* Variant: a line that fills the box exactly exceeds it.
exceeds_box_strict(line_width, size_x) == line_width >= size_x

exceeds_box(line_width, size_x) == line_width > size_x

RECURSIVE height_loop(_, _, _, _)
height_loop(str, font, size_x, s) ==
  IF s.stop
    THEN s
    ELSE IF (s.first = Len(str)) \/ (str[s.first + 1] = NEWLINE)
           THEN height_loop(str, font, size_x, [s EXCEPT !.stop = TRUE])
           ELSE LET c == str[s.first + 1]
                    lw == s.line_width + font.advance[c]
                IN IF exceeds_box(lw, size_x)
                     THEN height_loop( str, font, size_x,
                                       [s EXCEPT !.line_width = lw,
                                                 !.stop = TRUE] )
                     ELSE height_loop( str, font, size_x,
                                       [s EXCEPT !.line_width = lw,
                                                 !.result =
                                                   std_max(@, font.top[c]),
                                                 !.first = @ + 1] )

line_height_locals(str, font, size_x, pos) ==
  LET b == line_begin(str, pos)
      s0 == [ first |-> b, result |-> 0, line_width |-> 0, stop |-> FALSE ]
  IN height_loop(str, font, size_x, s0)

compute_line_height_above_baseline(str, font, size_x, pos) ==
  line_height_locals(str, font, size_x, pos).result

----------------------------------------------------------------------------
(* The state machine: a text_layout is built on given text, size, font and  *)
(* alignment, then its methods are called with any index.                   *)

no_width == [ first |-> 0, last |-> 0, result |-> 0, candidate_length |-> 0,
              width |-> 0, last_space_sequence |-> npos ]

no_height == [ first |-> 0, result |-> 0, line_width |-> 0, stop |-> FALSE ]

\* The fields and the state of the calls that every specification shares.
InitContext ==
  /\ m_text \in Texts
  /\ m_size_x \in 0..MaxW
  /\ m_font \in Fonts
  /\ m_horizontal_align \in text_align
  /\ pc = "idle"
  /\ first = 0
  /\ w = no_width
  /\ h = no_height
  /\ left = 0

\* compute_line_width reads the advances only, neither the sprites, the
\* bearings nor the alignment: they are fixed where this method alone is called.
flat_top == [c \in GlyphChars |-> 1]

InitWidth ==
  /\ InitContext
  /\ m_font.top = flat_top
  /\ m_horizontal_align = "align_left"

\* compute_line_left reads the alignment and the advances.
InitLeft ==
  /\ InitContext
  /\ m_font.top = flat_top

\* compute_line_height_above_baseline reads the whole font, not the alignment.
InitHeight ==
  /\ InitContext
  /\ m_horizontal_align = "align_left"

context == << m_size_x, m_text, m_font, m_horizontal_align >>

CallComputeLineWidth(pos) ==
  /\ pc = "idle"
  /\ pc' = "width"
  /\ first' = pos
  /\ w' = line_width_locals(m_text, m_font.advance, m_size_x, pos)
  /\ UNCHANGED << context, h, left >>

CallComputeLineHeightAboveBaseline(pos) ==
  /\ pc = "idle"
  /\ pc' = "height"
  /\ first' = pos
  /\ h' = line_height_locals(m_text, m_font, m_size_x, pos)
  /\ UNCHANGED << context, w, left >>

CallComputeLineLeft(pos) ==
  /\ pc = "idle"
  /\ pc' = "left"
  /\ first' = pos
  /\ left' = compute_line_left
               ( m_horizontal_align, m_size_x,
                 compute_line_width(m_text, m_font.advance, m_size_x, pos) )
  /\ UNCHANGED << context, w, h >>

\* The method returns; the layout is ready for another query.
Return ==
  /\ pc # "idle"
  /\ pc' = "idle"
  /\ first' = 0
  /\ w' = no_width
  /\ h' = no_height
  /\ left' = 0
  /\ UNCHANGED context

NextWidth ==
  \/ \E pos \in Starts : CallComputeLineWidth(pos)
  \/ Return

NextLeft ==
  \/ \E pos \in Starts : CallComputeLineLeft(pos)
  \/ Return

NextHeight ==
  \/ \E pos \in Starts : CallComputeLineHeightAboveBaseline(pos)
  \/ Return

SpecWidth == InitWidth /\ [][NextWidth]_vars

SpecLeft == InitLeft /\ [][NextLeft]_vars

SpecHeight == InitHeight /\ [][NextHeight]_vars

TypeOK ==
  /\ pc \in {"idle", "width", "height", "left"}
  /\ first \in Starts

----------------------------------------------------------------------------
(* Vocabulary of the properties, stated on the text and the font alone.     *)

Max(S) == CHOOSE x \in S : \A y \in S : y <= x

TextLength == Len(m_text)

\* The character at the 0-based index i of the text.
CharAt(i) == m_text[i + 1]

\* The sum of the advances of the characters at the indices i .. j - 1.
\* The index of the first non space character at or after the index of the
\* call, the length of the text if there is none.
LineStart ==
  LET S == { i \in 0..(TextLength - 1) : i >= first /\ CharAt(i) # SPACE }
  IN IF S = {} THEN TextLength ELSE Min(S)

\* A newline has no glyph and takes no room.
AdvanceOf(c) == IF c = NEWLINE THEN 0 ELSE m_font.advance[c]

RECURSIVE AdvanceSum(_, _)
AdvanceSum(i, j) ==
  IF j <= i THEN 0 ELSE AdvanceSum(i, j - 1) + AdvanceOf(CharAt(j - 1))

\* Where a scan from LineStart stops: the first index that is the end of the
\* text, or holds a newline, or whose character brings the sum of the
\* advances above the width of the box.
ScanStop ==
  LET start == LineStart
  IN Min({ i \in start..TextLength :
             \/ i = TextLength
             \/ CharAt(i) = NEWLINE
             \/ AdvanceSum(start, i + 1) > m_size_x })

\* Only spaces, or nothing, from the index of the call onward.
BlankFromFirst == \A i \in 0..(TextLength - 1) : i >= first => CharAt(i) = SPACE

\* The scan of compute_line_width has stopped on a newline or at the end of
\* the text, or else on a character that does not fit.
WidthHardStop == (w.last = TextLength) \/ (CharAt(w.last) = NEWLINE)

WidthOverflowStop == (w.last < TextLength) /\ (CharAt(w.last) # NEWLINE)

\* The breakable boundaries of the line up to the index `upto`: the first
\* space of each sequence of spaces.
Boundaries(upto) ==
  { i \in LineStart..upto :
      /\ i < TextLength
      /\ CharAt(i) = SPACE
      /\ (i = LineStart \/ CharAt(i - 1) # SPACE) }

\* The index where the sequence of spaces that ends just before `upto` begins;
\* `upto` itself if the character before it is not a space.
TrailingSpacesBegin(upto) ==
  Min({ e \in LineStart..upto : \A i \in e..(upto - 1) : CharAt(i) = SPACE })

AdvancesArePositive == \A c \in GlyphChars : m_font.advance[c] > 0

----------------------------------------------------------------------------
(* C1: every width returned by compute_line_width, for any text, box width  *)
(* and index (also at or beyond the end of the text), is at least zero and  *)
(* at most the width of the box: both postconditions hold.                 *)
C1_WidthWithinBox ==
  pc = "width" => (w.result >= 0 /\ w.result <= m_size_x)

\* A line cut by an overflow, which fills the box exactly.
C1_Witness ==
  /\ pc = "width"
  /\ WidthOverflowStop
  /\ w.last > LineStart
  /\ w.result = m_size_x
  /\ m_size_x > 0

(* C2: when the scan stops on a character that does not fit and a breakable *)
(* boundary was recorded on the line, the width is the candidate width at   *)
(* the most recent breakable boundary.                                      *)
C2_WordBoundaryBreak ==
  (pc = "width" /\ WidthOverflowStop /\ Boundaries(w.last) # {})
    => w.result = AdvanceSum(LineStart, Max(Boundaries(w.last)))

(* C3: when the scan stops on a character that does not fit and no          *)
(* breakable boundary was recorded, the width is the whole candidate width, *)
(* up to but not including the character that does not fit.                 *)
C3_ForcedBreak ==
  (pc = "width" /\ WidthOverflowStop /\ Boundaries(w.last) = {})
    => w.result = AdvanceSum(LineStart, w.last)

\* A word of two characters at least cut in its middle.
C3_Witness ==
  /\ pc = "width"
  /\ WidthOverflowStop
  /\ Boundaries(w.last) = {}
  /\ w.last >= LineStart + 2
  /\ w.result > 0

(* C4, as stated: when the scan stops on a newline or at the end of the     *)
(* text, the width is the whole candidate width, the spaces just before the *)
(* hard break included.                                                     *)
C4_HardBreakFullWidth ==
  (pc = "width" /\ WidthHardStop)
    => w.result = AdvanceSum(LineStart, w.last)

(* C4, amended: when the scan stops on a newline or at the end of the text, *)
(* the width is the candidate width at the beginning of the sequence of     *)
(* spaces that ends the line, so these spaces are excluded; it is the whole *)
(* candidate width when the line does not end with a space.                 *)
C4_HardBreakWithoutTrailingSpaces ==
  (pc = "width" /\ WidthHardStop)
    => w.result = AdvanceSum(LineStart, TrailingSpacesBegin(w.last))

\* A line ended by a newline or the end of text after spaces of non zero
\* advance.
C4_Witness ==
  /\ pc = "width"
  /\ WidthHardStop
  /\ TrailingSpacesBegin(w.last) < w.last
  /\ TrailingSpacesBegin(w.last) > LineStart
  /\ m_font.advance[SPACE] > 0
  /\ w.result > 0

(* C7: a character is included in the scan exactly when the candidate width *)
(* plus its advance is at most the width of the box; the scan stops on the  *)
(* first character for which the sum is greater, and does not include it.   *)
C7_NonStrictOverflow ==
  pc = "width" =>
    /\ w.first = LineStart
    /\ w.last >= LineStart /\ w.last <= TextLength
    /\ \A i \in LineStart..(w.last - 1) :
         CharAt(i) # NEWLINE /\ AdvanceSum(LineStart, i + 1) <= m_size_x
    /\ w.candidate_length = AdvanceSum(LineStart, w.last)
    /\ WidthOverflowStop => AdvanceSum(LineStart, w.last + 1) > m_size_x

\* Two characters at least whose advances sum to the width of the box: all
\* of them are included.
C7_Witness ==
  /\ pc = "width"
  /\ w.last = TextLength
  /\ w.last >= LineStart + 2
  /\ m_font.advance[CharAt(w.last - 1)] > 0
  /\ AdvanceSum(LineStart, TextLength) = m_size_x
  /\ w.result = m_size_x

(* C9: with a box of positive width and positive advances, if the line      *)
(* begins on a character that is not a newline, the width is zero only when *)
(* this first character does not fit; it is positive whenever it fits.      *)
C9_Progress ==
  ( /\ pc = "width"
    /\ m_size_x > 0
    /\ AdvancesArePositive
    /\ LineStart < TextLength
    /\ CharAt(LineStart) # NEWLINE )
    => ( w.result = 0 <=> m_font.advance[CharAt(LineStart)] > m_size_x )

\* The first word fits, spaces follow and the next word does not fit.
C9_Witness ==
  /\ pc = "width"
  /\ m_size_x > 0
  /\ AdvancesArePositive
  /\ LineStart < TextLength
  /\ WidthOverflowStop
  /\ Boundaries(w.last) # {}
  /\ CharAt(w.last) # SPACE
  /\ w.result > 0

----------------------------------------------------------------------------
(* C6: compute_line_left is a function of the alignment and of the width of *)
(* the line: zero on the left, the remaining space on the right, half the   *)
(* remaining space rounded toward zero at the center.                       *)
C6_LineLeft ==
  pc = "left" =>
    LET line_width == compute_line_width(m_text, m_font.advance, m_size_x, first)
        remaining == m_size_x - line_width
    IN /\ m_horizontal_align = "align_left" => left = 0
       /\ m_horizontal_align = "align_right" => left = remaining
       /\ m_horizontal_align = "align_center" =>
            /\ remaining >= 0
            /\ left >= 0
            /\ 2 * left <= remaining
            /\ remaining <= 2 * left + 1

\* A centered line that leaves an odd space: the half is rounded.
C6_Witness ==
  /\ pc = "left"
  /\ m_horizontal_align = "align_center"
  /\ compute_line_width(m_text, m_font.advance, m_size_x, first) > 0
  /\ m_size_x - compute_line_width(m_text, m_font.advance, m_size_x, first) = 1
  /\ left = 0

----------------------------------------------------------------------------
(* Properties of compute_line_height_above_baseline.                        *)

\* The top of the glyph of the character at the index i.
TopAt(i) == m_font.top[CharAt(i)]

\* The end of the line as compute_line_width measures it: the furthest index
\* of the scan up to which the advances sum to the returned width.
LineEnd ==
  LET s == line_width_locals(m_text, m_font.advance, m_size_x, first)
  IN Max({ e \in LineStart..s.last : AdvanceSum(LineStart, e) = s.result })

(* C5: the height above the baseline of a line depends only on the          *)
(* characters that compute_line_width counts in the line: a font that       *)
(* differs only on characters beyond the end of the line gives the same     *)
(* height.                                                                  *)
C5_AscentConsistency ==
  pc = "height" =>
    \A t \in Tops :
      (\A i \in LineStart..(LineEnd - 1) : t[CharAt(i)] = TopAt(i))
        => compute_line_height_above_baseline
             ( m_text, [m_font EXCEPT !.top = t], m_size_x, first ) = h.result

(* C8: when there are only spaces from the index onward, or the index is at *)
(* or beyond the end of the text, the width of the line and its height      *)
(* above the baseline are both zero.                                        *)
C8_BlankLine ==
  (pc = "height" /\ BlankFromFirst)
    => /\ h.result = 0
       /\ compute_line_width(m_text, m_font.advance, m_size_x, first) = 0

\* A line of spaces whose glyph has a height and an advance.
C8_Witness ==
  /\ pc = "height"
  /\ BlankFromFirst
  /\ first < TextLength
  /\ m_font.top[SPACE] > 0
  /\ m_font.advance[SPACE] > 0
  /\ m_font.advance[SPACE] <= m_size_x

(* C10, as stated: both scans stop at the same index, and the height is the *)
(* maximum of the tops of the characters from the beginning of the line to  *)
(* this index, zero if there is none.                                       *)
C10_SameScanMaxTop ==
  pc = "height" =>
    LET stop == ScanStop
    IN /\ h.first = stop
       /\ line_width_locals(m_text, m_font.advance, m_size_x, first).last = stop
       /\ h.result = IF stop > LineStart
                       THEN Max({ TopAt(i) : i \in LineStart..(stop - 1) })
                       ELSE 0

(* C10, amended: both scans stop at the same index, and the height is the   *)
(* maximum of zero and of the tops of the characters from the beginning of  *)
(* the line to this index.                                                  *)
C10_SameScanMaxTopOrZero ==
  pc = "height" =>
    LET stop == ScanStop
    IN /\ h.first = stop
       /\ line_width_locals(m_text, m_font.advance, m_size_x, first).last = stop
       /\ h.result =
            Max({0} \cup { TopAt(i) : i \in LineStart..(stop - 1) })

\* Two characters of different tops fit and the next one does not.
C10_Witness ==
  /\ pc = "height"
  /\ h.first < TextLength
  /\ CharAt(h.first) # NEWLINE
  /\ h.first >= LineStart + 2
  /\ TopAt(LineStart) # TopAt(LineStart + 1)
  /\ h.result > 0

----------------------------------------------------------------------------
(* C11: with positive advances, the width returned by compute_line_width    *)
(* is the sum of the advances from the first non space character at or     *)
(* after the index through a non space character of the scanned line: the  *)
(* spaces that begin the line and the spaces that end it are not counted,  *)
(* whether the line ends on an overflow, a newline or the end of the text. *)
(* The width is zero exactly when the scan includes no character.          *)
C11_WidthWithoutOuterSpaces ==
  (pc = "width" /\ AdvancesArePositive) =>
    \/ w.result = 0 /\ w.last = LineStart
    \/ \E e \in (LineStart + 1)..w.last :
         /\ CharAt(e - 1) # SPACE
         /\ w.result = AdvanceSum(LineStart, e)

\* Spaces are skipped at the beginning of the line, and the line is cut on
\* a space that does not fit.
C11_Witness ==
  /\ pc = "width"
  /\ AdvancesArePositive
  /\ first < LineStart
  /\ w.last > LineStart
  /\ w.last < TextLength
  /\ CharAt(w.last) = SPACE
  /\ w.result > 0

====
